---------------------------- MODULE Spec2Model ----------------------------
(***************************************************************************)
(* Exam-Seating-Planner: the seat-allocation engine (allocator.py) over    *)
(* the tables of database.py, and the endpoint of app.py that runs it.     *)
(*                                                                         *)
(* Spec            the three strategies, each run one atomic step          *)
(* SpecRepeat      one run of any strategy, then rollwise runs in a row    *)
(* SpecWeb         POST /api/allocate: the capacity check, then a run in   *)
(*                 which a save may raise                                  *)
(* SpecConcurrent  two rollwise runs, one store call per step              *)
(* SpecSwap        one run of any strategy, then swap_seats calls           *)
(*                                                                         *)
(* Roll numbers and room numbers are TEXT keys in the database; the only   *)
(* things the code does with them are compare them for equality and order  *)
(* them (ORDER BY, sorted).  They are modelled as naturals with <.         *)
(* A seat label f"{room}-R{row}C{col}" is modelled as <<room, row, col>>.  *)
(***************************************************************************)
EXTENDS Naturals, Sequences, FiniteSets

\* ------------------------------------------------------------------ bounds

\* The students table holds at most MaxStudents rows.
MaxStudents == 3
\* The rooms of a rooms table have at most MaxSeats seats between them.
MaxSeats == 4
\* activity_log only grows: a run starts while it holds fewer than MaxLog rows.
MaxLog == 1

\* The subject codes a students table may use, in the order it first uses them.
SubjectOrder == <<"CS101", "MA102", "PH103">>
\* The room numbers a rooms table may use.
RoomNos == {101, 102}

VARIABLES
    students,       \* table students: set of rows [roll_no, subject_code]
    rooms,          \* table rooms: set of rows [room_no, rows, columns, capacity]
    allocations,    \* table seating_allocations, in id (insertion) order
    activity_log,   \* table activity_log, in id (insertion) order
    cleared,        \* how many rows its clear_allocations deleted
    last,           \* the operation that ran last
    result,         \* what it returned: [success, message]
    calls,          \* the store calls it made, in order
    runs,           \* the rollwise runs of concurrent requests: where each
                    \* stands and its local variables
    overlapped      \* a run has started while another was under way

vars == <<students, rooms, allocations, activity_log, last, result, calls, cleared,
          runs, overlapped>>

\* ------------------------------------------------------------- sequences

Min(a, b) == IF a < b THEN a ELSE b

Range(s) == {s[i] : i \in 1..Len(s)}

\* The permutations of 1..n, for every list length the model meets.
PermutationTable ==
    [n \in 0..MaxStudents |->
        {p \in [1..n -> 1..n] : \A i, j \in 1..n : p[i] = p[j] => i = j}]

Permutations(n) == PermutationTable[n]

\* A shuffle that leaves the list as it is.
shuffle_none(list, p) == list

\* random.shuffle(list): the list in the order p, any permutation of its places.
shuffle(list, p) == [i \in 1..Len(list) |-> list[p[i]]]

\* ------------------------------------------------------------ database.py

\* The store as one allocation run threads it: the two tables a run writes,
\* the calls made so far and the rows its DELETE removed.
Store(a, l, c) == [allocations |-> a, activity_log |-> l, calls |-> c, cleared |-> 0]

\* A clear that is never issued.
clear_allocations_skipped(db) == db

clear_allocations(db) ==
    [db EXCEPT !.allocations = <<>>,
               !.cleared = Len(db.allocations),
               !.calls = Append(@, "clear_allocations")]

\* An insert that tags every record "rollwise", whatever the strategy.
insert_allocation_one_tag(db, roll_no, room_no, row_num, col_num, seat_number, method) ==
    [db EXCEPT !.allocations =
                   Append(@, [roll_no |-> roll_no, room_no |-> room_no,
                              row_num |-> row_num, col_num |-> col_num,
                              seat_number |-> seat_number,
                              allocation_method |-> "rollwise"]),
               !.calls = Append(@, "insert_allocation")]

insert_allocation(db, roll_no, room_no, row_num, col_num, seat_number, method) ==
    [db EXCEPT !.allocations =
                   Append(@, [roll_no |-> roll_no, room_no |-> room_no,
                              row_num |-> row_num, col_num |-> col_num,
                              seat_number |-> seat_number,
                              allocation_method |-> method]),
               !.calls = Append(@, "insert_allocation")]

log_activity(db, activity_type, description) ==
    [db EXCEPT !.activity_log =
                   Append(@, [activity_type |-> activity_type,
                              description |-> description]),
               !.calls = Append(@, "log_activity")]

\* SELECT * FROM students ORDER BY roll_no
RECURSIVE OrderByRollNo(_)
OrderByRollNo(S) ==
    IF S = {} THEN <<>>
    ELSE LET m == CHOOSE x \in S : \A y \in S : x.roll_no <= y.roll_no
         IN  <<m>> \o OrderByRollNo(S \ {m})

\* The SELECT with ORDER BY roll_no DESC.
get_all_students_descending(db) ==
    [db |-> [db EXCEPT !.calls = Append(@, "get_all_students")],
     rows |-> LET rows == OrderByRollNo(students)
              IN  [i \in 1..Len(rows) |-> rows[Len(rows) + 1 - i]]]

get_all_students(db) ==
    [db |-> [db EXCEPT !.calls = Append(@, "get_all_students")],
     rows |-> OrderByRollNo(students)]

\* SELECT * FROM rooms ORDER BY room_no
RECURSIVE OrderByRoomNo(_)
OrderByRoomNo(S) ==
    IF S = {} THEN <<>>
    ELSE LET m == CHOOSE x \in S : \A y \in S : x.room_no <= y.room_no
         IN  <<m>> \o OrderByRoomNo(S \ {m})

get_all_rooms(db) ==
    [db |-> [db EXCEPT !.calls = Append(@, "get_all_rooms")],
     rows |-> OrderByRoomNo(rooms)]

\* ----------------------------------------------------------- allocator.py

\* sorted(students, key=lambda x: x['roll_no']): a stable insertion sort.
RECURSIVE InsertByRollNo(_, _)
InsertByRollNo(s, x) ==
    IF s = <<>> THEN <<x>>
    ELSE IF s[Len(s)].roll_no <= x.roll_no THEN Append(s, x)
    ELSE Append(InsertByRollNo(SubSeq(s, 1, Len(s) - 1), x), s[Len(s)])

\* A sort with the comparison turned round: descending roll numbers.
RECURSIVE sorted_descending(_)
sorted_descending(s) ==
    IF s = <<>> THEN <<>>
    ELSE <<s[Len(s)]>> \o sorted_descending(SubSeq(s, 1, Len(s) - 1))

RECURSIVE sorted(_)
sorted(s) ==
    IF s = <<>> THEN <<>>
    ELSE InsertByRollNo(sorted(SubSeq(s, 1, Len(s) - 1)), s[Len(s)])

\* f"{room['room_no']}-R{row}C{col}"
SeatNumber(room_no, row, col) == <<room_no, row, col>>

\* The loops nested the other way round: column after column.
RoomSeats_column_major(room) ==
    [k \in 1..(room.rows * room.columns) |->
        LET col == ((k - 1) \div room.rows) + 1
            row == ((k - 1) % room.rows) + 1
        IN  [room_no |-> room.room_no, row |-> row, col |-> col,
             seat_number |-> SeatNumber(room.room_no, row, col)]]

\* The seats of one room, rows 1..rows, each columns 1..columns.
RoomSeats(room) ==
    [k \in 1..(room.rows * room.columns) |->
        LET row == ((k - 1) \div room.columns) + 1
            col == ((k - 1) % room.columns) + 1
        IN  [room_no |-> room.room_no, row |-> row, col |-> col,
             seat_number |-> SeatNumber(room.room_no, row, col)]]

\* room_seats: the rooms' seats, room after room.
RECURSIVE room_seats(_)
room_seats(rs) ==
    IF rs = <<>> THEN <<>>
    ELSE RoomSeats(Head(rs)) \o room_seats(Tail(rs))

\* The loop with seat = room_seats[0] in place of room_seats[i].
RECURSIVE AssignInOrder_first_seat(_, _, _, _, _)
AssignInOrder_first_seat(db, order, seats, i, method) ==
    IF i > Len(order) THEN db
    ELSE IF i <= Len(seats)
         THEN AssignInOrder_first_seat(
                  insert_allocation(db, order[i].roll_no, seats[1].room_no,
                                    seats[1].row, seats[1].col,
                                    seats[1].seat_number, method),
                  order, seats, i + 1, method)
         ELSE AssignInOrder_first_seat(db, order, seats, i + 1, method)

\* for i, student in enumerate(order): if i < len(room_seats): insert_allocation
RECURSIVE AssignInOrder(_, _, _, _, _)
AssignInOrder(db, order, seats, i, method) ==
    IF i > Len(order) THEN db
    ELSE IF i <= Len(seats)
         THEN AssignInOrder(
                  insert_allocation(db, order[i].roll_no, seats[i].room_no,
                                    seats[i].row, seats[i].col,
                                    seats[i].seat_number, method),
                  order, seats, i + 1, method)
         ELSE AssignInOrder(db, order, seats, i + 1, method)

Returned(db, op, success, message) ==
    /\ allocations' = db.allocations
    /\ activity_log' = db.activity_log
    /\ calls' = db.calls
    /\ cleared' = db.cleared
    /\ last' = op
    /\ result' = [success |-> success, message |-> message]
    /\ UNCHANGED <<students, rooms, runs, overlapped>>

\* The run with "not students and not rooms" as the input test.
allocate_rollwise_both_empty ==
    LET db0 == clear_allocations(Store(allocations, activity_log, <<>>))
        s == get_all_students(db0)
        r == get_all_rooms(s.db)
    IN  IF s.rows = <<>> /\ r.rows = <<>>
        THEN Returned(r.db, "allocate_rollwise", FALSE,
                      <<"No students or rooms available">>)
        ELSE LET students_sorted == sorted(s.rows)
                 seats == room_seats(r.rows)
                 db1 == AssignInOrder(r.db, students_sorted, seats, 1, "rollwise")
                 allocated == Len(db1.allocations)
                 db2 == log_activity(db1, "allocation",
                                     <<"Roll-wise allocation completed", allocated>>)
             IN  Returned(db2, "allocate_rollwise", TRUE,
                          <<"Successfully allocated", allocated, "rollwise">>)

\* The run without its clear_allocations(): it adds to what the table held.
allocate_rollwise_no_clear ==
    LET s == get_all_students(Store(allocations, activity_log, <<>>))
        r == get_all_rooms(s.db)
    IN  IF s.rows = <<>> \/ r.rows = <<>>
        THEN Returned(r.db, "allocate_rollwise", FALSE,
                      <<"No students or rooms available">>)
        ELSE LET students_sorted == sorted(s.rows)
                 seats == room_seats(r.rows)
                 db1 == AssignInOrder(r.db, students_sorted, seats, 1, "rollwise")
                 allocated == Len(db1.allocations) - Len(allocations)
                 db2 == log_activity(db1, "allocation",
                                     <<"Roll-wise allocation completed", allocated>>)
             IN  Returned(db2, "allocate_rollwise", TRUE,
                          <<"Successfully allocated", allocated, "rollwise">>)

allocate_rollwise ==
    LET db0 == clear_allocations(Store(allocations, activity_log, <<>>))
        s == get_all_students(db0)
        r == get_all_rooms(s.db)
    IN  IF s.rows = <<>> \/ r.rows = <<>>
        THEN Returned(r.db, "allocate_rollwise", FALSE,
                      <<"No students or rooms available">>)
        ELSE LET students_sorted == sorted(s.rows)
                 seats == room_seats(r.rows)
                 db1 == AssignInOrder(r.db, students_sorted, seats, 1, "rollwise")
                 allocated == Len(db1.allocations)
                 db2 == log_activity(db1, "allocation",
                                     <<"Roll-wise allocation completed", allocated>>)
             IN  Returned(db2, "allocate_rollwise", TRUE,
                          <<"Successfully allocated", allocated, "rollwise">>)

\* What the run can leave in the store once its inputs are found non-empty:
\* one outcome for each order random.shuffle can put the students in.
RandomOutcomes ==
    LET db0 == clear_allocations(Store(allocations, activity_log, <<>>))
        s == get_all_students(db0)
        r == get_all_rooms(s.db)
        seats == room_seats(r.rows)
    IN  {LET students_list == shuffle(s.rows, p)
             db1 == AssignInOrder(r.db, students_list, seats, 1, "random")
             allocated == Len(db1.allocations)
         IN  log_activity(db1, "allocation",
                          <<"Random allocation completed", allocated>>) :
            p \in Permutations(Len(s.rows))}

\* The run with its log_activity ahead of the loop that saves.
allocate_random_logs_first ==
    LET db0 == clear_allocations(Store(allocations, activity_log, <<>>))
        s == get_all_students(db0)
        r == get_all_rooms(s.db)
        seats == room_seats(r.rows)
        allocated == Min(Len(s.rows), Len(seats))
    IN  IF s.rows = <<>> \/ r.rows = <<>>
        THEN Returned(r.db, "allocate_random", FALSE,
                      <<"No students or rooms available">>)
        ELSE \E p \in Permutations(Len(s.rows)) :
                 LET db1 == log_activity(r.db, "allocation",
                                         <<"Random allocation completed", allocated>>)
                     db2 == AssignInOrder(db1, shuffle(s.rows, p), seats, 1, "random")
                 IN  Returned(db2, "allocate_random", TRUE,
                              <<"Successfully allocated", allocated, "randomly">>)

allocate_random ==
    LET db0 == clear_allocations(Store(allocations, activity_log, <<>>))
        s == get_all_students(db0)
        r == get_all_rooms(s.db)
    IN  IF s.rows = <<>> \/ r.rows = <<>>
        THEN Returned(r.db, "allocate_random", FALSE,
                      <<"No students or rooms available">>)
        ELSE \E db2 \in RandomOutcomes :
                 Returned(db2, "allocate_random", TRUE,
                          <<"Successfully allocated", Len(db2.allocations), "randomly">>)

\* One key per student: the code is appended whether or not it was met.
RECURSIVE SubjectKeys_per_student(_)
SubjectKeys_per_student(s) ==
    IF s = <<>> THEN <<>>
    ELSE Append(SubjectKeys_per_student(SubSeq(s, 1, Len(s) - 1)),
                s[Len(s)].subject_code)

\* The keys in the order the codes are last met, latest first.
RECURSIVE SubjectKeys_latest_first(_)
SubjectKeys_latest_first(s) ==
    IF s = <<>> THEN <<>>
    ELSE LET ks == SubjectKeys_latest_first(SubSeq(s, 1, Len(s) - 1))
             code == s[Len(s)].subject_code
         IN  <<code>> \o SelectSeq(ks, LAMBDA k : k # code)

\* list(subject_groups.keys()): the subject codes in the order the loop over
\* the students first meets them (a dict keeps insertion order).
RECURSIVE SubjectKeys(_)
SubjectKeys(s) ==
    IF s = <<>> THEN <<>>
    ELSE LET ks == SubjectKeys(SubSeq(s, 1, Len(s) - 1))
             code == s[Len(s)].subject_code
         IN  IF code \in Range(ks) THEN ks ELSE Append(ks, code)

\* subject_groups[code]: the students with that code, in the order met.
RECURSIVE SubjectGroup(_, _)
SubjectGroup(s, code) ==
    IF s = <<>> THEN <<>>
    ELSE IF Head(s).subject_code = code
         THEN <<Head(s)>> \o SubjectGroup(Tail(s), code)
         ELSE SubjectGroup(Tail(s), code)

\* The (room, r, c) the three nested loops visit, in order, r and c 0-based.
RoomScan(room) ==
    [k \in 1..(room.rows * room.columns) |->
        [room_no |-> room.room_no,
         r |-> (k - 1) \div room.columns,
         c |-> (k - 1) % room.columns]]

RECURSIVE ZigZagScan(_)
ZigZagScan(rs) ==
    IF rs = <<>> THEN <<>>
    ELSE RoomScan(Head(rs)) \o ZigZagScan(Tail(rs))

\* A pattern that never alternates: every seat is designated course_a.
current_course_a_only(r, c) == "A"

\* Every row in the order A-B-A-B: the row's parity is not looked at.
current_course_by_column(r, c) == <<"A", "B">>[(c % 2) + 1]

\* zigzag_order[c % 2]: "A" for course_a, "B" for course_b.
current_course(r, c) ==
    LET zigzag_order == IF r % 2 = 0 THEN <<"A", "B">> ELSE <<"B", "A">>
    IN  zigzag_order[(c % 2) + 1]

\* The loop without its else branch: a seat whose designated group has run
\* out is left empty.
RECURSIVE ZigZag_no_fallback(_, _, _, _, _, _, _)
ZigZag_no_fallback(db, scan, k, group_a, group_b, a_index, b_index) ==
    IF k > Len(scan) THEN db
    ELSE LET at == scan[k]
             designated == current_course(at.r, at.c)
             take == IF designated = "A" /\ a_index < Len(group_a) THEN "A"
                     ELSE IF designated = "B" /\ b_index < Len(group_b) THEN "B"
                     ELSE "continue"
         IN  IF take = "continue"
             THEN ZigZag_no_fallback(db, scan, k + 1, group_a, group_b, a_index, b_index)
             ELSE LET student == IF take = "A" THEN group_a[a_index + 1]
                                 ELSE group_b[b_index + 1]
                  IN  ZigZag_no_fallback(
                          insert_allocation(db, student.roll_no, at.room_no,
                                            at.r + 1, at.c + 1,
                                            SeatNumber(at.room_no, at.r + 1, at.c + 1),
                                            "anti-cheating"),
                          scan, k + 1, group_a, group_b,
                          IF take = "A" THEN a_index + 1 ELSE a_index,
                          IF take = "B" THEN b_index + 1 ELSE b_index)

\* The body of the innermost loop at scan[k], then the rest of the scan.
\* a_index and b_index count the students of each course placed so far.
RECURSIVE ZigZag(_, _, _, _, _, _, _)
ZigZag(db, scan, k, group_a, group_b, a_index, b_index) ==
    IF k > Len(scan) THEN db
    ELSE LET at == scan[k]
             designated == current_course(at.r, at.c)
             take == IF designated = "A" /\ a_index < Len(group_a) THEN "A"
                     ELSE IF designated = "B" /\ b_index < Len(group_b) THEN "B"
                     ELSE IF a_index < Len(group_a) THEN "A"
                     ELSE IF b_index < Len(group_b) THEN "B"
                     ELSE "continue"
         IN  IF take = "continue"
             THEN ZigZag(db, scan, k + 1, group_a, group_b, a_index, b_index)
             ELSE LET student == IF take = "A" THEN group_a[a_index + 1]
                                 ELSE group_b[b_index + 1]
                  IN  ZigZag(insert_allocation(db, student.roll_no, at.room_no,
                                               at.r + 1, at.c + 1,
                                               SeatNumber(at.room_no, at.r + 1, at.c + 1),
                                               "anti-cheating"),
                             scan, k + 1, group_a, group_b,
                             IF take = "A" THEN a_index + 1 ELSE a_index,
                             IF take = "B" THEN b_index + 1 ELSE b_index)

\* The run with a log entry for the refusal of a single subject group.
allocate_anti_cheating_logs_refusal ==
    LET db0 == clear_allocations(Store(allocations, activity_log, <<>>))
        s == get_all_students(db0)
        r == get_all_rooms(s.db)
        keys == SubjectKeys(s.rows)
    IN  IF s.rows = <<>> \/ r.rows = <<>>
        THEN Returned(r.db, "allocate_anti_cheating", FALSE,
                      <<"No students or rooms available">>)
        ELSE IF Len(keys) < 2
        THEN Returned(log_activity(r.db, "allocation", <<"Anti-Cheating refused", 0>>),
                      "allocate_anti_cheating", FALSE,
                      <<"Need at least two different courses for anti-cheating allocation">>)
        ELSE LET course_a == keys[1]
                 course_b == keys[2]
                 list_a == SubjectGroup(s.rows, course_a)
                 list_b == SubjectGroup(s.rows, course_b)
             IN  \E pa \in Permutations(Len(list_a)), pb \in Permutations(Len(list_b)) :
                 LET db1 == ZigZag(r.db, ZigZagScan(r.rows), 1,
                                   shuffle(list_a, pa), shuffle(list_b, pb), 0, 0)
                     allocated == Len(db1.allocations)
                     db2 == log_activity(db1, "allocation",
                                <<"Anti-Cheating (Zig-Zag) allocation completed", allocated>>)
                 IN  Returned(db2, "allocate_anti_cheating", TRUE,
                              <<"Successfully allocated", allocated,
                                "in Anti-Cheating Zig-Zag mode">>)

allocate_anti_cheating ==
    LET db0 == clear_allocations(Store(allocations, activity_log, <<>>))
        s == get_all_students(db0)
        r == get_all_rooms(s.db)
        keys == SubjectKeys(s.rows)
    IN  IF s.rows = <<>> \/ r.rows = <<>>
        THEN Returned(r.db, "allocate_anti_cheating", FALSE,
                      <<"No students or rooms available">>)
        ELSE IF Len(keys) < 2
        THEN Returned(r.db, "allocate_anti_cheating", FALSE,
                      <<"Need at least two different courses for anti-cheating allocation">>)
        ELSE LET course_a == keys[1]
                 course_b == keys[2]
                 list_a == SubjectGroup(s.rows, course_a)
                 list_b == SubjectGroup(s.rows, course_b)
             IN  \E pa \in Permutations(Len(list_a)), pb \in Permutations(Len(list_b)) :
                 LET db1 == ZigZag(r.db, ZigZagScan(r.rows), 1,
                                   shuffle(list_a, pa), shuffle(list_b, pb), 0, 0)
                     allocated == Len(db1.allocations)
                     db2 == log_activity(db1, "allocation",
                                <<"Anti-Cheating (Zig-Zag) allocation completed", allocated>>)
                 IN  Returned(db2, "allocate_anti_cheating", TRUE,
                              <<"Successfully allocated", allocated,
                                "in Anti-Cheating Zig-Zag mode">>)

\* ------------------------------------------------------------------ app.py

\* SELECT SUM(capacity) FROM rooms ... or 0
RECURSIVE SumCapacity(_)
SumCapacity(T) ==
    IF T = {} THEN 0
    ELSE LET x == CHOOSE y \in T : TRUE
         IN  x.capacity + SumCapacity(T \ {x})

\* The comparison turned round: total_capacity <= total_students.
check_capacity_turned_round ==
    LET total_students == Cardinality(students)
        total_capacity == SumCapacity(rooms)
    IN  [total_students |-> total_students,
         total_capacity |-> total_capacity,
         sufficient |-> total_capacity <= total_students]

check_capacity ==
    LET total_students == Cardinality(students)
        total_capacity == SumCapacity(rooms)
    IN  [total_students |-> total_students,
         total_capacity |-> total_capacity,
         sufficient |-> total_capacity >= total_students]

\* data.get('method', 'anti-cheating'): "rollwise", "random", or anything else.
Methods == {"rollwise", "random", "anti-cheating"}

\* Which save of a run raises (the store is locked, the disk is full): the
\* first, the second, ...; 0 when none does.
Faults == 0..MaxStudents

\* insert_allocation raising: the call is made and no row is written.
FailedSave(db) == [db EXCEPT !.calls = Append(@, "insert_allocation")]

\* The stores a run can have built when its save number fault raises: an
\* exception leaves the loops at once, so the run has done what its loop does
\* over the students (the seats) before that save.  Empty when the run makes
\* fewer than fault saves.
RaisingOutcomes(method, fault) ==
    LET db0 == clear_allocations(Store(allocations, activity_log, <<>>))
        s == get_all_students(db0)
        r == get_all_rooms(s.db)
        seats == room_seats(r.rows)
        keys == SubjectKeys(s.rows)
    IN  IF s.rows = <<>> \/ r.rows = <<>> \/ fault = 0
        THEN {}
        ELSE IF method = "rollwise"
        THEN IF fault > Min(Len(s.rows), Len(seats)) THEN {}
             ELSE {FailedSave(AssignInOrder(r.db, SubSeq(sorted(s.rows), 1, fault - 1),
                                            seats, 1, "rollwise"))}
        ELSE IF method = "random"
        THEN IF fault > Min(Len(s.rows), Len(seats)) THEN {}
             ELSE {FailedSave(AssignInOrder(r.db, SubSeq(shuffle(s.rows, p), 1, fault - 1),
                                            seats, 1, "random")) :
                      p \in Permutations(Len(s.rows))}
        ELSE IF Len(keys) < 2 THEN {}
        ELSE LET list_a == SubjectGroup(s.rows, keys[1])
                 list_b == SubjectGroup(s.rows, keys[2])
                 scan == ZigZagScan(r.rows)
                 Upto(j, pa, pb) == ZigZag(r.db, SubSeq(scan, 1, j), 1,
                                           shuffle(list_a, pa), shuffle(list_b, pb), 0, 0)
             IN  UNION {{FailedSave(Upto(j - 1, pa, pb)) :
                            j \in {i \in 1..Len(scan) :
                                      /\ Len(Upto(i - 1, pa, pb).allocations) = fault - 1
                                      /\ Len(Upto(i, pa, pb).allocations) = fault}} :
                        pa \in Permutations(Len(list_a)),
                        pb \in Permutations(Len(list_b))}

\* A rollback: the exception handler puts back what the table held.
Raised_rolled_back(db, op, e) ==
    /\ allocations' = allocations
    /\ activity_log' = db.activity_log
    /\ calls' = db.calls
    /\ cleared' = db.cleared
    /\ last' = op
    /\ result' = [success |-> FALSE, message |-> <<"Error", e>>]
    /\ UNCHANGED <<students, rooms, runs, overlapped>>

\* except Exception as e: every insert_allocation before it has committed.
Raised(db, op, e) ==
    /\ allocations' = db.allocations
    /\ activity_log' = db.activity_log
    /\ calls' = db.calls
    /\ cleared' = db.cleared
    /\ last' = op
    /\ result' = [success |-> FALSE, message |-> <<"Error", e>>]
    /\ UNCHANGED <<students, rooms, runs, overlapped>>

\* The allocation function the endpoint calls for a method.
RunOf(method) ==
    CASE method = "rollwise" -> "allocate_rollwise"
      [] method = "random" -> "allocate_random"
      [] OTHER -> "allocate_anti_cheating"

\* POST /api/allocate
allocate_seats(method, fault) ==
    LET capacity == check_capacity
    IN  IF ~capacity.sufficient
        THEN Returned(Store(allocations, activity_log, <<>>), "allocate_seats", FALSE,
                      <<"Insufficient capacity", capacity.total_students,
                        capacity.total_capacity>>)
        ELSE IF RaisingOutcomes(method, fault) # {}
        THEN \E db \in RaisingOutcomes(method, fault) :
                 Raised(db, RunOf(method), "insert_allocation")
        ELSE CASE method = "rollwise" -> allocate_rollwise
               [] method = "random" -> allocate_random
               [] OTHER -> allocate_anti_cheating

\* ------------------------------------------------------- concurrent requests

\* The server answers each request on a thread of its own: two requests for
\* a rollwise allocation, each a run taking one store call at a time (a store
\* call opens its connection, commits and closes it).
RunIds == {"request1", "request2"}

NotStarted ==
    [pc |-> "clear_allocations", students |-> <<>>, students_sorted |-> <<>>,
     room_seats |-> <<>>, i |-> 0]

UnderWay(p) == runs[p].pc \notin {"clear_allocations", "returned"}

\* What a step of a run does to the store; its locals are in runs'.
Stored(db) ==
    /\ allocations' = db.allocations
    /\ activity_log' = db.activity_log
    /\ calls' = db.calls
    /\ UNCHANGED <<students, rooms>>

\* The first step without its DELETE.
run_clear_allocations_skipped(p) ==
    /\ runs[p].pc = "clear_allocations"
    /\ Stored(Store(allocations, activity_log, calls))
    /\ cleared' = 0
    /\ runs' = [runs EXCEPT ![p].pc = "get_all_students"]
    /\ overlapped' = (overlapped \/ \E q \in RunIds \ {p} : UnderWay(q))
    /\ UNCHANGED <<last, result>>

\* allocator.py line 10
run_clear_allocations(p) ==
    /\ runs[p].pc = "clear_allocations"
    /\ LET db == clear_allocations(Store(allocations, activity_log, calls))
       IN  Stored(db) /\ cleared' = db.cleared
    /\ runs' = [runs EXCEPT ![p].pc = "get_all_students"]
    /\ overlapped' = (overlapped \/ \E q \in RunIds \ {p} : UnderWay(q))
    /\ UNCHANGED <<last, result>>

\* line 12
run_get_all_students(p) ==
    /\ runs[p].pc = "get_all_students"
    /\ LET s == get_all_students(Store(allocations, activity_log, calls))
       IN  /\ Stored(s.db)
           /\ runs' = [runs EXCEPT ![p].pc = "get_all_rooms", ![p].students = s.rows]
    /\ UNCHANGED <<cleared, last, result, overlapped>>

\* lines 13 to 31: the fetch of the rooms, the input test, the sort and the
\* seat list
run_get_all_rooms(p) ==
    /\ runs[p].pc = "get_all_rooms"
    /\ LET r == get_all_rooms(Store(allocations, activity_log, calls))
       IN  /\ Stored(r.db)
           /\ IF runs[p].students = <<>> \/ r.rows = <<>>
              THEN /\ runs' = [runs EXCEPT ![p].pc = "returned"]
                   /\ last' = "allocate_rollwise"
                   /\ result' = [success |-> FALSE,
                                 message |-> <<"No students or rooms available">>]
              ELSE /\ runs' = [runs EXCEPT ![p].pc = "insert_allocation",
                                           ![p].students_sorted = sorted(runs[p].students),
                                           ![p].room_seats = room_seats(r.rows)]
                   /\ UNCHANGED <<last, result>>
    /\ UNCHANGED <<cleared, overlapped>>

\* lines 32 to 43: one turn of the loop that saves a record
run_insert_allocation(p) ==
    /\ runs[p].pc = "insert_allocation"
    /\ runs[p].i < Len(runs[p].students_sorted)
    /\ runs[p].i < Len(runs[p].room_seats)
    /\ LET student == runs[p].students_sorted[runs[p].i + 1]
           seat == runs[p].room_seats[runs[p].i + 1]
       IN  Stored(insert_allocation(Store(allocations, activity_log, calls),
                                    student.roll_no, seat.room_no, seat.row, seat.col,
                                    seat.seat_number, "rollwise"))
    /\ runs' = [runs EXCEPT ![p].i = @ + 1]
    /\ UNCHANGED <<cleared, last, result, overlapped>>

\* lines 45 and 46, once the loop has no record left to save (its turns past
\* the last seat save nothing)
run_log_activity(p) ==
    /\ runs[p].pc = "insert_allocation"
    /\ \/ runs[p].i >= Len(runs[p].students_sorted)
       \/ runs[p].i >= Len(runs[p].room_seats)
    /\ Stored(log_activity(Store(allocations, activity_log, calls), "allocation",
                           <<"Roll-wise allocation completed", runs[p].i>>))
    /\ runs' = [runs EXCEPT ![p].pc = "returned"]
    /\ last' = "allocate_rollwise"
    /\ result' = [success |-> TRUE,
                  message |-> <<"Successfully allocated", runs[p].i, "rollwise">>]
    /\ UNCHANGED <<cleared, overlapped>>

\* ------------------------------------------------------------- swap_seats

\* SELECT * FROM seating_allocations WHERE roll_no = ?, fetchone(): the
\* first row of that roll number as <<row>>, <<>> when there is none.
FetchOne(table, roll_no) ==
    LET hits == {k \in 1..Len(table) : table[k].roll_no = roll_no}
    IN  IF hits = {} THEN <<>>
        ELSE <<table[CHOOSE k \in hits : \A j \in hits : k <= j]>>

\* UPDATE seating_allocations SET room_no, row_num, col_num, seat_number
\* WHERE roll_no = ?: every row of that roll number takes the seat of `to`.
UpdateSeat(table, roll_no, to) ==
    [k \in 1..Len(table) |->
        IF table[k].roll_no = roll_no
        THEN [table[k] EXCEPT !.room_no = to.room_no, !.row_num = to.row_num,
                              !.col_num = to.col_num, !.seat_number = to.seat_number]
        ELSE table[k]]

\* The second UPDATE given the seat roll1 has after the first, not the seat
\* read before it: both students end on the seat of roll2.
swap_seats_reads_after_update(roll1, roll2) ==
    LET r1 == FetchOne(allocations, roll1)
        r2 == FetchOne(allocations, roll2)
        db == Store(allocations, activity_log, <<"swap_seats">>)
    IN  IF r1 = <<>> /\ r2 = <<>>
        THEN Returned(db, "swap_seats", FALSE,
                      <<"Neither roll number has a seat allocation", roll1, roll2>>)
        ELSE IF r1 = <<>>
        THEN Returned(db, "swap_seats", FALSE,
                      <<"Roll number has no allocation to swap", roll1>>)
        ELSE IF r2 = <<>>
        THEN Returned(db, "swap_seats", FALSE,
                      <<"Roll number has no allocation to swap", roll2>>)
        ELSE LET first == UpdateSeat(allocations, roll1, r2[1])
                 second == UpdateSeat(first, roll2, FetchOne(first, roll1)[1])
                 description == <<"Seat swap", roll1, roll2, r1[1].room_no, r2[1].room_no,
                                  r1[1].seat_number, r2[1].seat_number>>
             IN  Returned([db EXCEPT !.allocations = second,
                                     !.activity_log =
                                         Append(@, [activity_type |-> "seat_swap",
                                                    description |-> description])],
                          "swap_seats", TRUE,
                          <<"Successfully swapped seats between", roll1, roll2>>)

\* The refusals written to activity_log like the swaps.
swap_seats_logs_refusal(roll1, roll2) ==
    LET r1 == FetchOne(allocations, roll1)
        r2 == FetchOne(allocations, roll2)
        db == Store(allocations, activity_log, <<"swap_seats">>)
        refused == [db EXCEPT !.activity_log =
                                  Append(@, [activity_type |-> "seat_swap",
                                             description |-> <<"Seat swap refused",
                                                               roll1, roll2>>])]
    IN  IF r1 = <<>> /\ r2 = <<>>
        THEN Returned(refused, "swap_seats", FALSE,
                      <<"Neither roll number has a seat allocation", roll1, roll2>>)
        ELSE IF r1 = <<>>
        THEN Returned(refused, "swap_seats", FALSE,
                      <<"Roll number has no allocation to swap", roll1>>)
        ELSE IF r2 = <<>>
        THEN Returned(refused, "swap_seats", FALSE,
                      <<"Roll number has no allocation to swap", roll2>>)
        ELSE LET first == UpdateSeat(allocations, roll1, r2[1])
                 second == UpdateSeat(first, roll2, r1[1])
                 description == <<"Seat swap", roll1, roll2, r1[1].room_no, r2[1].room_no,
                                  r1[1].seat_number, r2[1].seat_number>>
             IN  Returned([db EXCEPT !.allocations = second,
                                     !.activity_log =
                                         Append(@, [activity_type |-> "seat_swap",
                                                    description |-> description])],
                          "swap_seats", TRUE,
                          <<"Successfully swapped seats between", roll1, roll2>>)

\* database.py swap_seats: the two reads, the three refusals, then the two
\* UPDATEs and the log entry in one transaction.
swap_seats(roll1, roll2) ==
    LET r1 == FetchOne(allocations, roll1)
        r2 == FetchOne(allocations, roll2)
        db == Store(allocations, activity_log, <<"swap_seats">>)
    IN  IF r1 = <<>> /\ r2 = <<>>
        THEN Returned(db, "swap_seats", FALSE,
                      <<"Neither roll number has a seat allocation", roll1, roll2>>)
        ELSE IF r1 = <<>>
        THEN Returned(db, "swap_seats", FALSE,
                      <<"Roll number has no allocation to swap", roll1>>)
        ELSE IF r2 = <<>>
        THEN Returned(db, "swap_seats", FALSE,
                      <<"Roll number has no allocation to swap", roll2>>)
        ELSE LET first == UpdateSeat(allocations, roll1, r2[1])
                 second == UpdateSeat(first, roll2, r1[1])
                 description == <<"Seat swap", roll1, roll2, r1[1].room_no, r2[1].room_no,
                                  r1[1].seat_number, r2[1].seat_number>>
             IN  Returned([db EXCEPT !.allocations = second,
                                     !.activity_log =
                                         Append(@, [activity_type |-> "seat_swap",
                                                    description |-> description])],
                          "swap_seats", TRUE,
                          <<"Successfully swapped seats between", roll1, roll2>>)

\* ------------------------------------------------------------------ system

\* Subject codes are compared for equality only, so a table is drawn up to a
\* renaming of its codes: a code is first used only after the codes before it.
SubjectIndex(code) == CHOOSE i \in 1..Len(SubjectOrder) : SubjectOrder[i] = code

FirstUseInOrder(f, n) ==
    \A q \in 1..n :
        \A i \in 1..(SubjectIndex(f[q]) - 1) :
            \E p \in 1..(q - 1) : f[p] = SubjectOrder[i]

\* Roll numbers are compared and ordered only: a table of n students holds
\* the rolls 1..n.
StudentTables ==
    UNION {{{[roll_no |-> q, subject_code |-> f[q]] : q \in 1..n} :
                f \in {g \in [1..n -> Range(SubjectOrder)] : FirstUseInOrder(g, n)}} :
           n \in 0..MaxStudents}

\* The shapes a room may have: at least one row and one column.
RoomShapes ==
    {sh \in (1..MaxSeats) \X (1..MaxSeats) : sh[1] * sh[2] <= MaxSeats}

RECURSIVE Capacity(_)
Capacity(T) ==
    IF T = {} THEN 0
    ELSE LET x == CHOOSE y \in T : TRUE
         IN  x.rows * x.columns + Capacity(T \ {x})

\* The rooms tables over RoomNos: one row per room number, capacity stored
\* as rows x columns, and at most MaxSeats seats in all.
RoomTables ==
    {T \in UNION {{{[room_no |-> n, rows |-> g[n][1], columns |-> g[n][2],
                     capacity |-> g[n][1] * g[n][2]] : n \in R} :
                       g \in [R -> RoomShapes]} : R \in SUBSET RoomNos} :
        Capacity(T) <= MaxSeats}

\* What seating_allocations may hold when a run starts: nothing, or the
\* records of an earlier run over tables since replaced (an upload replaces
\* students or rooms and leaves seating_allocations alone).
EarlierAllocations ==
    {<<>>,
     <<[roll_no |-> 1, room_no |-> 102, row_num |-> 1, col_num |-> 1,
        seat_number |-> SeatNumber(102, 1, 1), allocation_method |-> "random"],
       [roll_no |-> 2, room_no |-> 102, row_num |-> 1, col_num |-> 2,
        seat_number |-> SeatNumber(102, 1, 2), allocation_method |-> "random"]>>}

Init ==
    /\ students \in StudentTables
    /\ rooms \in RoomTables
    /\ allocations \in EarlierAllocations
    /\ activity_log = <<>>
    /\ cleared = 0
    /\ last = "none"
    /\ result = [success |-> TRUE, message |-> <<>>]
    /\ calls = <<>>
    /\ runs = [p \in RunIds |-> NotStarted]
    /\ overlapped = FALSE

\* A run starts only while activity_log holds fewer than MaxLog rows.
LogHasRoom == Len(activity_log) < MaxLog

Next ==
    \/ LogHasRoom /\ allocate_rollwise
    \/ LogHasRoom /\ allocate_random
    \/ LogHasRoom /\ allocate_anti_cheating

Spec == Init /\ [][Next]_vars

\* --------------------------------------------------------- the web endpoint

\* An uploaded rooms file gives Capacity as a column of its own: a room's
\* stored capacity is rows x columns, or overstates it by one.
UploadedRoomTables ==
    {{[x EXCEPT !.capacity = IF x.room_no \in over THEN @ + 1 ELSE @] : x \in T} :
        T \in RoomTables, over \in SUBSET RoomNos}

InitWeb ==
    /\ students \in StudentTables
    /\ rooms \in UploadedRoomTables
    /\ allocations \in EarlierAllocations
    /\ activity_log = <<>>
    /\ cleared = 0
    /\ last = "none"
    /\ result = [success |-> TRUE, message |-> <<>>]
    /\ calls = <<>>
    /\ runs = [p \in RunIds |-> NotStarted]
    /\ overlapped = FALSE

\* One request is followed from each starting store.
NoRequestYet == last = "none"

NextWeb ==
    \E method \in Methods, fault \in Faults :
        NoRequestYet /\ allocate_seats(method, fault)

SpecWeb == InitWeb /\ [][NextWeb]_vars

\* ------------------------------------------------- two requests at a time

\* A rollwise run never reads a subject code: the students tables of one code.
InitConcurrent ==
    /\ students \in {T \in StudentTables : Cardinality({x.subject_code : x \in T}) <= 1}
    /\ rooms \in RoomTables
    /\ allocations = <<>>
    /\ activity_log = <<>>
    /\ cleared = 0
    /\ last = "none"
    /\ result = [success |-> TRUE, message |-> <<>>]
    /\ calls = <<>>
    /\ runs = [p \in RunIds |-> NotStarted]
    /\ overlapped = FALSE

NextConcurrent ==
    \E p \in RunIds :
        \/ run_clear_allocations(p)
        \/ run_get_all_students(p)
        \/ run_get_all_rooms(p)
        \/ run_insert_allocation(p)
        \/ run_log_activity(p)

SpecConcurrent == InitConcurrent /\ [][NextConcurrent]_vars

\* ------------------------------------------- rollwise runs one after another

\* One run of any strategy, then rollwise runs in a row over the same tables.
FirstRun == activity_log = <<>>

\* A rollwise run starts while activity_log holds at most MaxLog + 1 rows.
RepeatHasRoom == Len(activity_log) < MaxLog + 2

NextRepeat ==
    \/ RepeatHasRoom /\ allocate_rollwise
    \/ FirstRun /\ allocate_random
    \/ FirstRun /\ allocate_anti_cheating

SpecRepeat == Init /\ [][NextRepeat]_vars

\* ------------------------------------------------- a run, then seat swaps

\* The roll numbers a swap may be asked for.
SwapRolls == 1..MaxStudents

\* The swaps activity_log holds.
SwapsLogged == SelectSeq(activity_log, LAMBDA e : e.activity_type = "seat_swap")

\* One run of any strategy, then swaps: any two roll numbers while no swap
\* has been made, and after a swap the same two again.
SameSwapAgain(roll1, roll2) ==
    \/ SwapsLogged = <<>>
    \/ /\ SwapsLogged # <<>>
       /\ SwapsLogged[Len(SwapsLogged)].description[2] = roll1
       /\ SwapsLogged[Len(SwapsLogged)].description[3] = roll2

NextSwap ==
    \/ FirstRun /\ allocate_rollwise
    \/ FirstRun /\ allocate_random
    \/ FirstRun /\ allocate_anti_cheating
    \/ \E roll1, roll2 \in SwapRolls :
           RepeatHasRoom /\ SameSwapAgain(roll1, roll2) /\ swap_seats(roll1, roll2)

SpecSwap == Init /\ [][NextSwap]_vars

\* ------------------------------------------------------------ observations

AllocationRuns == {"allocate_rollwise", "allocate_random", "allocate_anti_cheating"}

\* The method tag each strategy writes.
MethodTag(op) ==
    CASE op = "allocate_rollwise" -> "rollwise"
      [] op = "allocate_random" -> "random"
      [] op = "allocate_anti_cheating" -> "anti-cheating"

\* N students, S seats.
NumStudents == Cardinality(students)
NumSeats == Capacity(rooms)

\* The place of a roll number in ascending roll-number order, from 1.
RollRank(roll_no) == Cardinality({x \in students : x.roll_no < roll_no}) + 1

\* The place of a seat in the seat sequence, from 1: the seats of the rooms
\* with smaller room numbers come first, then the rows above it, then the
\* columns to its left.
SeatRank(room_no, row, col) ==
    LET room == CHOOSE x \in rooms : x.room_no = room_no
    IN  Capacity({x \in rooms : x.room_no < room_no})
          + (row - 1) * room.columns + col

\* A record names a seat that exists.
IsSeat(a) ==
    \E x \in rooms : /\ x.room_no = a.room_no
                     /\ a.row_num \in 1..x.rows
                     /\ a.col_num \in 1..x.columns

RecordRank(a) == SeatRank(a.room_no, a.row_num, a.col_num)

SubjectOf(roll_no) == (CHOOSE x \in students : x.roll_no = roll_no).subject_code

Records == Range(allocations)

\* How many of the run's store calls were the call named.
CallCount(name) == Cardinality({k \in 1..Len(calls) : calls[k] = name})

\* ------------------------------------------------------------------ claims

\* C1: allocate_rollwise on a non-empty student set and a non-empty room list
\* returns success and holds exactly one record for each i <= min(N, S), that
\* of the i-th student in ascending roll-number order at the i-th seat of the
\* seat sequence; the students at later places have no record.
C1_RollwiseSeatsInRollOrder ==
    (last = "allocate_rollwise" /\ students # {} /\ rooms # {}) =>
        /\ result.success
        /\ Len(allocations) = Min(NumStudents, NumSeats)
        /\ \A i \in 1..Min(NumStudents, NumSeats) :
               \E a \in Records :
                   /\ a.roll_no \in {x.roll_no : x \in students}
                   /\ RollRank(a.roll_no) = i
                   /\ IsSeat(a)
                   /\ RecordRank(a) = i
        /\ \A x \in students :
               RollRank(x.roll_no) > NumSeats =>
                   \A a \in Records : a.roll_no # x.roll_no

\* A rollwise run over two rooms that seats some students and leaves one out.
C1_Witness ==
    /\ last = "allocate_rollwise"
    /\ result.success
    /\ Cardinality(rooms) = 2
    /\ NumStudents = 3
    /\ Len(allocations) = 2
    /\ \E a \in Records : a.room_no = 102

\* C2: the store holds at most one allocation record per roll number and at
\* most one student per seat (room, row, column), whatever runs went before.
C2_OneRecordPerStudentAndSeat ==
    \A i, j \in 1..Len(allocations) :
        i # j =>
            /\ allocations[i].roll_no # allocations[j].roll_no
            /\ <<allocations[i].room_no, allocations[i].row_num, allocations[i].col_num>>
                 # <<allocations[j].room_no, allocations[j].row_num, allocations[j].col_num>>

\* An anti-cheating run that replaced earlier records and seated three
\* students across two rooms.
C2_Witness ==
    /\ last = "allocate_anti_cheating"
    /\ cleared > 0
    /\ Len(allocations) = 3
    /\ {a.room_no : a \in Records} = {101, 102}

\* C3: every allocation run issues clear_allocations as its first store call,
\* before it reads students or rooms, and a run that then fails leaves the
\* store with no allocation record.
C3_ClearComesFirst ==
    last \in AllocationRuns =>
        /\ Len(calls) >= 3
        /\ calls[1] = "clear_allocations"
        /\ \A k \in 1..Len(calls) :
               calls[k] \in {"get_all_students", "get_all_rooms"} => k > 1
        /\ (~result.success => allocations = <<>>)

\* An anti-cheating run that failed for want of a second subject group and
\* wiped the records it found.
C3_Witness ==
    /\ last = "allocate_anti_cheating"
    /\ ~result.success
    /\ students # {}
    /\ rooms # {}
    /\ cleared > 0
    /\ allocations = <<>>

\* C4: after a successful run the allocation records are exactly the records
\* that run inserted, each with the run's method tag.
C4_OnlyThisRunsRecords ==
    (last \in AllocationRuns /\ result.success) =>
        /\ Len(allocations) = CallCount("insert_allocation")
        /\ \A a \in Records : a.allocation_method = MethodTag(last)

\* A successful anti-cheating run that found two records of an earlier run
\* and wrote three of its own.
C4_Witness ==
    /\ last = "allocate_anti_cheating"
    /\ result.success
    /\ cleared = 2
    /\ Len(allocations) = 3

\* C5: a run on an empty student set or an empty room set returns failure and
\* leaves no allocation record, whatever the store held before.
C5_EmptyInputFails ==
    (last \in AllocationRuns /\ (students = {} \/ rooms = {})) =>
        /\ ~result.success
        /\ result.message = <<"No students or rooms available">>
        /\ allocations = <<>>

\* A rollwise run with students and no room, over a store that held records.
C5_Witness ==
    /\ last = "allocate_rollwise"
    /\ students # {}
    /\ rooms = {}
    /\ cleared > 0
    /\ allocations = <<>>
    /\ ~result.success

\* The subject codes present, and the two the anti-cheating run uses: that
\* of the smallest roll number, and the next distinct one in ascending
\* roll-number order.
SubjectCodes == {x.subject_code : x \in students}

FirstOf(S) == CHOOSE x \in S : \A y \in S : x.roll_no <= y.roll_no

CodeA == FirstOf(students).subject_code

CodeB == FirstOf({x \in students : x.subject_code # CodeA}).subject_code

GroupSize(code) == Cardinality({x \in students : x.subject_code = code})

\* The students of a group seated before record k was written.
PlacedBefore(k, code) ==
    Cardinality({j \in 1..(k - 1) : SubjectOf(allocations[j].roll_no) = code})

Unplaced(k, code) == GroupSize(code) - PlacedBefore(k, code)

\* Record j is the right-hand neighbour of record i: same room, same row,
\* next column.
RightOf(i, j) ==
    /\ allocations[i].room_no = allocations[j].room_no
    /\ allocations[i].row_num = allocations[j].row_num
    /\ allocations[j].col_num = allocations[i].col_num + 1

\* C6: allocate_anti_cheating on non-empty tables whose students all share
\* one subject code returns failure and writes no allocation record.
C6_OneGroupFails ==
    (/\ last = "allocate_anti_cheating"
     /\ students # {}
     /\ rooms # {}
     /\ Cardinality(SubjectCodes) = 1) =>
        /\ ~result.success
        /\ result.message =
             <<"Need at least two different courses for anti-cheating allocation">>
        /\ CallCount("insert_allocation") = 0
        /\ allocations = <<>>

\* Three students of one subject code and three seats: the run fails.
C6_Witness ==
    /\ last = "allocate_anti_cheating"
    /\ NumStudents = 3
    /\ Cardinality(SubjectCodes) = 1
    /\ NumSeats = 3
    /\ ~result.success
    /\ CallCount("insert_allocation") = 0

\* C7: after an anti-cheating run, two occupied seats next to each other in
\* a row hold students of different groups whenever group A and group B both
\* had an unplaced member when the right-hand seat was filled.
C7_NeighboursDifferWhileBothRemain ==
    (last = "allocate_anti_cheating" /\ result.success) =>
        \A i, j \in 1..Len(allocations) :
            (/\ RightOf(i, j)
             /\ Unplaced(j, CodeA) > 0
             /\ Unplaced(j, CodeB) > 0) =>
                SubjectOf(allocations[i].roll_no) # SubjectOf(allocations[j].roll_no)

\* A row of three: the first two seats were filled while both groups had
\* members left, the third after one group ran out.
C7_Witness ==
    /\ last = "allocate_anti_cheating"
    /\ result.success
    /\ \E i, j \in 1..Len(allocations) :
           /\ RightOf(i, j)
           /\ Unplaced(j, CodeA) > 0
           /\ Unplaced(j, CodeB) > 0
    /\ \E i, j \in 1..Len(allocations) :
           /\ RightOf(i, j)
           /\ (Unplaced(j, CodeA) = 0 \/ Unplaced(j, CodeB) = 0)

\* C8: after every successful anti-cheating run no two occupied seats next to
\* each other in a row of a room hold students with the same subject code.
C8_NoSameCourseNeighbours ==
    (last = "allocate_anti_cheating" /\ result.success) =>
        \A i, j \in 1..Len(allocations) :
            RightOf(i, j) =>
                SubjectOf(allocations[i].roll_no) # SubjectOf(allocations[j].roll_no)

\* C9: allocate_anti_cheating with three or more subject groups returns
\* success and writes records only for students of groups A and B, at most
\* |A| + |B| of them; the students of every other group have no record.
C9_OnlyFirstTwoGroups ==
    (/\ last = "allocate_anti_cheating"
     /\ rooms # {}
     /\ Cardinality(SubjectCodes) >= 3) =>
        /\ result.success
        /\ \A a \in Records :
               /\ a.roll_no \in {x.roll_no : x \in students}
               /\ SubjectOf(a.roll_no) \in {CodeA, CodeB}
        /\ \A x \in students :
               x.subject_code \notin {CodeA, CodeB} =>
                   \A a \in Records : a.roll_no # x.roll_no
        /\ Len(allocations) <= GroupSize(CodeA) + GroupSize(CodeB)

\* Three groups and three seats: two students are seated, the third seat
\* stays empty and the third group's student has no record.
C9_Witness ==
    /\ last = "allocate_anti_cheating"
    /\ result.success
    /\ Cardinality(SubjectCodes) = 3
    /\ NumSeats = 3
    /\ Len(allocations) = 2

\* The orders a shuffle of the students may produce: every arrangement of
\* the roll numbers.
Arrangements ==
    {q \in [1..NumStudents -> {x.roll_no : x \in students}] :
        \A i, j \in 1..NumStudents : q[i] = q[j] => i = j}

\* C10: allocate_random on non-empty tables writes min(N, S) records, the
\* k-th at the k-th seat of the seat sequence, for distinct students; and
\* every arrangement of the students is an outcome a run can produce: one of
\* its outcomes seats the first min(N, S) students of it, in that order.
C10_RandomFillsSeatPrefix ==
    /\ (last = "allocate_random" /\ students # {} /\ rooms # {}) =>
           /\ result.success
           /\ Len(allocations) = Min(NumStudents, NumSeats)
           /\ \A k \in 1..Len(allocations) :
                  /\ allocations[k].roll_no \in {x.roll_no : x \in students}
                  /\ IsSeat(allocations[k])
                  /\ RecordRank(allocations[k]) = k
                  /\ allocations[k].allocation_method = "random"
           /\ \A i, j \in 1..Len(allocations) :
                  allocations[i].roll_no = allocations[j].roll_no => i = j
    /\ (last = "none" /\ students # {} /\ rooms # {}) =>
           \A q \in Arrangements :
               \E db \in RandomOutcomes :
                   /\ Len(db.allocations) = Min(NumStudents, NumSeats)
                   /\ \A k \in 1..Len(db.allocations) :
                          db.allocations[k].roll_no = q[k]

\* A random run that seated the students in an order other than ascending
\* roll number, and left one of three without a seat.
C10_Witness ==
    /\ last = "allocate_random"
    /\ result.success
    /\ NumStudents = 3
    /\ Len(allocations) = 2
    /\ allocations[1].roll_no > allocations[2].roll_no

\* C11: a rollwise run that follows a rollwise run over the same students and
\* rooms leaves the same allocation records and returns the same result,
\* whatever the first of the two found in the allocation table.
C11_RollwiseTwiceSameRecords ==
    [][(last = "allocate_rollwise" /\ last' = "allocate_rollwise") =>
           /\ allocations' = allocations
           /\ result' = result]_vars

\* A random run, then two rollwise runs: the second replaced the records of
\* the first with as many of its own.
C11_Witness ==
    /\ last = "allocate_rollwise"
    /\ Len(activity_log) = 3
    /\ activity_log[1].description[1] = "Random allocation completed"
    /\ activity_log[2].description[1] = "Roll-wise allocation completed"
    /\ activity_log[3].description[1] = "Roll-wise allocation completed"
    /\ cleared = Len(allocations)
    /\ cleared >= 2

\* The group the zig-zag pattern designates for the seat of a record: A when
\* its 0-based row and column in its room add up to an even number, B when
\* to an odd one.
DesignatedCode(a) ==
    IF ((a.row_num - 1) + (a.col_num - 1)) % 2 = 0 THEN CodeA ELSE CodeB

\* Record k holds a student of the designated group if that group had an
\* unplaced member when the record was written.
FollowsDesignation(k) ==
    Unplaced(k, DesignatedCode(allocations[k])) > 0 =>
        SubjectOf(allocations[k].roll_no) = DesignatedCode(allocations[k])

\* How many records a run of the strategy writes over the present tables
\* when no save fails.
WouldSave(op) ==
    IF op = "allocate_anti_cheating"
    THEN Min(GroupSize(CodeA) + GroupSize(CodeB), NumSeats)
    ELSE Min(NumStudents, NumSeats)

\* The run ended in an exception of insert_allocation.
SaveRaised ==
    /\ last \in AllocationRuns
    /\ result.message = <<"Error", "insert_allocation">>

\* C12: when a save raises after k records were written, the run reports
\* failure, the k records stay and the records the table held before the run
\* do not come back: the table holds the first k of the records the run was
\* writing (seat k of the seat sequence for record k, in the strategy's
\* order), fewer than a complete run writes, and no log entry is made.
C12_FailedSaveKeepsPrefix ==
    SaveRaised =>
        LET k == CallCount("insert_allocation") - 1
        IN  /\ ~result.success
            /\ calls[1] = "clear_allocations"
            /\ CallCount("log_activity") = 0
            /\ Len(allocations) = k
            /\ k < WouldSave(last)
            /\ \A i \in 1..k :
                   /\ allocations[i].allocation_method = MethodTag(last)
                   /\ allocations[i].roll_no \in {x.roll_no : x \in students}
                   /\ IsSeat(allocations[i])
                   /\ RecordRank(allocations[i]) = i
                   /\ last = "allocate_rollwise" => RollRank(allocations[i].roll_no) = i
                   /\ last = "allocate_anti_cheating" =>
                          /\ SubjectOf(allocations[i].roll_no) \in {CodeA, CodeB}
                          /\ FollowsDesignation(i)
            /\ \A i, j \in 1..k :
                   allocations[i].roll_no = allocations[j].roll_no => i = j

\* An anti-cheating run over a table of two earlier records whose third save
\* raised: its first two records are all the table holds.
C12_Witness ==
    /\ SaveRaised
    /\ last = "allocate_anti_cheating"
    /\ cleared = 2
    /\ NumStudents = 3
    /\ CallCount("insert_allocation") = 3
    /\ Len(allocations) = 2
    /\ \A a \in Records : a.allocation_method = "anti-cheating"

\* One roll number has two allocation records.
RollBookedTwice ==
    \E i, j \in 1..Len(allocations) :
        i # j /\ allocations[i].roll_no = allocations[j].roll_no

\* One seat holds two students.
SeatBookedTwice ==
    \E i, j \in 1..Len(allocations) :
        /\ i # j
        /\ allocations[i].room_no = allocations[j].room_no
        /\ allocations[i].row_num = allocations[j].row_num
        /\ allocations[i].col_num = allocations[j].col_num

\* C13: a roll number with two allocation records, or a seat with two
\* students, is found only after a run has started while another was under
\* way: runs that interleave store call by store call reach such a state
\* (the witness), runs taken one after the other never do.
C13_BookedTwiceOnlyWhenOverlapped ==
    (RollBookedTwice \/ SeatBookedTwice) => overlapped

\* Two runs interleaved: both have returned success, and a roll number has
\* two records on one seat.
C13_Witness ==
    /\ overlapped
    /\ \A p \in RunIds : runs[p].pc = "returned"
    /\ result.success
    /\ RollBookedTwice
    /\ SeatBookedTwice

\* The seat sequence rollwise and random build from the rooms table.
SeatSequence == room_seats(OrderByRoomNo(rooms))

\* Every (room, row, column) of the rooms table.
AllSeats ==
    UNION {{<<x.room_no, row, col>> : row \in 1..x.rows, col \in 1..x.columns} :
              x \in rooms}

\* Seat s comes before seat t: a smaller room number, or the same room and a
\* row above, or the same row and a column to the left.
SeatBefore(s, t) ==
    \/ s.room_no < t.room_no
    \/ s.room_no = t.room_no /\ s.row < t.row
    \/ s.room_no = t.room_no /\ s.row = t.row /\ s.col < t.col

\* C14: the seat sequence lists the rooms in ascending room number and each
\* room row by row, every (room, row, column) once and nothing else, so that
\* its length is the sum of rows x columns; after a rollwise or random run a
\* room holds a student only if every seat of the rooms before it is taken.
C14_SeatSequenceRowMajor ==
    /\ \A i, j \in 1..Len(SeatSequence) :
           i < j => SeatBefore(SeatSequence[i], SeatSequence[j])
    /\ {<<s.room_no, s.row, s.col>> : s \in Range(SeatSequence)} = AllSeats
    /\ \A s \in Range(SeatSequence) :
           s.seat_number = SeatNumber(s.room_no, s.row, s.col)
    /\ Len(SeatSequence) = Capacity(rooms)
    /\ (last \in {"allocate_rollwise", "allocate_random"} /\ result.success) =>
           \A a \in Records :
               \A seat \in AllSeats :
                   seat[1] < a.room_no =>
                       \E b \in Records :
                           <<b.room_no, b.row_num, b.col_num>> = seat

\* A random run that filled the two rows of room 101 and went on to room 102.
C14_Witness ==
    /\ last = "allocate_random"
    /\ result.success
    /\ \E x \in rooms : x.room_no = 101 /\ x.rows = 2
    /\ \E a \in Records : a.room_no = 102
    /\ Len(SeatSequence) = 4

\* C15: the pattern designates A for the seat at 0-based row r and column c
\* when r + c is even and B when it is odd, rows counted from 0 in every
\* room; after an anti-cheating run every record whose designated group had
\* an unplaced member when it was written holds a student of that group.
C15_DesignationByParity ==
    /\ \A r, c \in 0..MaxSeats :
           current_course(r, c) = IF (r + c) % 2 = 0 THEN "A" ELSE "B"
    /\ (last = "allocate_anti_cheating" /\ result.success) =>
           \A k \in 1..Len(allocations) : FollowsDesignation(k)

\* The first seat of a second row went to a student of group B while group A
\* still had a member to place.
C15_Witness ==
    /\ last = "allocate_anti_cheating"
    /\ result.success
    /\ \E k \in 1..Len(allocations) :
           /\ allocations[k].row_num = 2
           /\ allocations[k].col_num = 1
           /\ SubjectOf(allocations[k].roll_no) = CodeB
           /\ Unplaced(k, CodeA) > 0
           /\ Unplaced(k, CodeB) > 0

\* C16: a successful anti-cheating run seats min(|A| + |B|, S) students, one
\* record each, on the first seats of the seat sequence with none left out
\* between them, so a seat stays empty only once A and B are both used up;
\* the count in its message is the number of records.
C16_SeatsUntilBothGroupsRunOut ==
    (last = "allocate_anti_cheating" /\ result.success) =>
        /\ Len(allocations) = Min(GroupSize(CodeA) + GroupSize(CodeB), NumSeats)
        /\ \A k \in 1..Len(allocations) :
               /\ IsSeat(allocations[k])
               /\ RecordRank(allocations[k]) = k
               /\ SubjectOf(allocations[k].roll_no) \in {CodeA, CodeB}
        /\ \A i, j \in 1..Len(allocations) :
               allocations[i].roll_no = allocations[j].roll_no => i = j
        /\ result.message =
               <<"Successfully allocated", Len(allocations), "in Anti-Cheating Zig-Zag mode">>

\* Three seats, one student in one group and two in the other: the seat
\* designated for the group that ran out went to the other group.
C16_Witness ==
    /\ last = "allocate_anti_cheating"
    /\ result.success
    /\ NumSeats = 3
    /\ Len(allocations) = 3
    /\ \E k \in 1..Len(allocations) :
           /\ Unplaced(k, DesignatedCode(allocations[k])) = 0
           /\ SubjectOf(allocations[k].roll_no) # DesignatedCode(allocations[k])

\* C17: the store calls of a run are clear_allocations, the two fetches,
\* then, if the run succeeds, its saves and after the last of them one
\* log_activity, which adds one entry carrying the number of records saved;
\* a run that fails makes no call after the fetches and adds no log entry.
C17_CallsInOrder ==
    [][last' \in AllocationRuns =>
           /\ Len(calls') >= 3
           /\ calls'[1] = "clear_allocations"
           /\ calls'[2] = "get_all_students"
           /\ calls'[3] = "get_all_rooms"
           /\ IF result'.success
              THEN /\ Len(calls') >= 4
                   /\ \A k \in 4..(Len(calls') - 1) : calls'[k] = "insert_allocation"
                   /\ calls'[Len(calls')] = "log_activity"
                   /\ Len(allocations') = Len(calls') - 4
                   /\ Len(activity_log') = Len(activity_log) + 1
                   /\ SubSeq(activity_log', 1, Len(activity_log)) = activity_log
                   /\ activity_log'[Len(activity_log')].activity_type = "allocation"
                   /\ activity_log'[Len(activity_log')].description[2] = Len(allocations')
                   /\ result'.message[2] = Len(allocations')
              ELSE /\ Len(calls') = 3
                   /\ activity_log' = activity_log]_vars

\* A random run that saved three records and then logged them.
C17_Witness ==
    /\ last = "allocate_random"
    /\ result.success
    /\ calls = <<"clear_allocations", "get_all_students", "get_all_rooms",
                 "insert_allocation", "insert_allocation", "insert_allocation",
                 "log_activity">>
    /\ activity_log = <<[activity_type |-> "allocation",
                         description |-> <<"Random allocation completed", 3>>]>>

\* The messages of the input errors.
InputErrors ==
    {<<"No students or rooms available">>,
     <<"Need at least two different courses for anti-cheating allocation">>}

\* C18: a run that ends in an input error writes nothing after its clear: it
\* makes no save, adds no log entry and leaves the allocation table empty;
\* no run, failed or successful, changes the students or the rooms.
C18_InputErrorWritesNothing ==
    [][last' \in AllocationRuns =>
           /\ students' = students
           /\ rooms' = rooms
           /\ result'.message \in InputErrors =>
                  /\ ~result'.success
                  /\ calls' = <<"clear_allocations", "get_all_students", "get_all_rooms">>
                  /\ allocations' = <<>>
                  /\ activity_log' = activity_log]_vars

\* A rollwise run over rooms and no student: it cleared two earlier records
\* and wrote nothing.
C18_Witness ==
    /\ last = "allocate_rollwise"
    /\ result.message \in InputErrors
    /\ students = {}
    /\ rooms # {}
    /\ cleared = 2
    /\ calls = <<"clear_allocations", "get_all_students", "get_all_rooms">>
    /\ activity_log = <<>>

\* Every room's stored capacity is its rows x columns.
SeatsAsStored == \A x \in rooms : x.capacity = x.rows * x.columns

\* The allocation records of a roll number.
RecordsOf(roll_no) == {k \in 1..Len(allocations) : allocations[k].roll_no = roll_no}

\* C19: after a successful rollwise or random run made through the
\* endpoint, over rooms whose stored capacity is rows x columns, every
\* student has exactly one allocation record; after a successful
\* anti-cheating run over more than two subject groups some student has none.
C19_EndpointSeatsEveryStudent ==
    /\ (/\ last \in {"allocate_rollwise", "allocate_random"}
        /\ result.success
        /\ SeatsAsStored) =>
           \A x \in students : Cardinality(RecordsOf(x.roll_no)) = 1
    /\ (/\ last = "allocate_anti_cheating"
        /\ result.success
        /\ SeatsAsStored
        /\ Cardinality(SubjectCodes) > 2) =>
           \E x \in students : RecordsOf(x.roll_no) = {}

\* A random run through the endpoint with as many seats as students, in two
\* rooms: each of the three students has a record.
C19_Witness ==
    /\ last = "allocate_random"
    /\ result.success
    /\ SeatsAsStored
    /\ check_capacity.sufficient
    /\ NumStudents = 3
    /\ check_capacity.total_capacity = 3
    /\ Cardinality(rooms) = 2
    /\ \A x \in students : Cardinality(RecordsOf(x.roll_no)) = 1

\* C20: the two groups an anti-cheating run uses are fixed by the students
\* table: the first key of its grouping is the subject code of the smallest
\* roll number and the second the next distinct code in ascending roll
\* order; whatever the shuffles, the first seat goes to a student of the
\* first and every record to a student of one of the two.
C20_GroupsFixedByStudents ==
    /\ Cardinality(SubjectCodes) >= 2 =>
           LET s == get_all_students(Store(allocations, activity_log, <<>>))
               subjects == SubSeq(SubjectKeys(s.rows), 1, 2)
           IN  subjects = <<CodeA, CodeB>>
    /\ (last = "allocate_anti_cheating" /\ result.success) =>
           /\ allocations # <<>>
           /\ SubjectOf(allocations[1].roll_no) = CodeA
           /\ \A a \in Records : SubjectOf(a.roll_no) \in {CodeA, CodeB}

\* Students 1 and 3 share the first code and student 2 has the second: a
\* run whose shuffle put student 3 on the first seat.
C20_Witness ==
    /\ last = "allocate_anti_cheating"
    /\ result.success
    /\ NumStudents = 3
    /\ SubjectOf(1) = SubjectOf(3)
    /\ SubjectOf(2) # SubjectOf(1)
    /\ allocations[1].roll_no = 3
    /\ \E a \in Records : SubjectOf(a.roll_no) = CodeB

\* C21: a swap_seats call that succeeds on two distinct roll numbers found
\* both with one record; it exchanges their room, row, column and label and
\* changes nothing else: the table keeps its length, every record its roll
\* number and method tag, every other record all its fields, the sets of
\* allocated roll numbers and occupied seats are the same, no roll number
\* or seat becomes booked twice, and activity_log grows by one seat_swap
\* entry; after the same swap made twice in a row both students are back
\* on the seats the first swap found them on.
C21_SwapExchangesSeats ==
    [][(/\ last' = "swap_seats"
        /\ result'.success
        /\ result'.message[2] # result'.message[3]) =>
           LET roll1 == result'.message[2]
               roll2 == result'.message[3]
               Seat(a) == <<a.room_no, a.row_num, a.col_num, a.seat_number>>
               n == Len(SwapsLogged')
           IN  /\ Cardinality(RecordsOf(roll1)) = 1
               /\ Cardinality(RecordsOf(roll2)) = 1
               /\ Len(allocations') = Len(allocations)
               /\ \A k \in 1..Len(allocations) :
                      /\ allocations'[k].roll_no = allocations[k].roll_no
                      /\ allocations'[k].allocation_method = allocations[k].allocation_method
                      /\ allocations[k].roll_no \notin {roll1, roll2} =>
                             allocations'[k] = allocations[k]
               /\ \A i \in RecordsOf(roll1), j \in RecordsOf(roll2) :
                      /\ Seat(allocations'[i]) = Seat(allocations[j])
                      /\ Seat(allocations'[j]) = Seat(allocations[i])
                      /\ Seat(allocations[i]) # Seat(allocations[j])
               /\ {a.roll_no : a \in Records'} = {a.roll_no : a \in Records}
               /\ {Seat(a) : a \in Records'} = {Seat(a) : a \in Records}
               /\ ~RollBookedTwice /\ ~RollBookedTwice'
               /\ ~SeatBookedTwice /\ ~SeatBookedTwice'
               /\ Len(activity_log') = Len(activity_log) + 1
               /\ SubSeq(activity_log', 1, Len(activity_log)) = activity_log
               /\ activity_log'[Len(activity_log')].activity_type = "seat_swap"
               /\ students' = students /\ rooms' = rooms
               /\ (/\ n >= 2
                   /\ SwapsLogged'[n - 1].description[2] = roll1
                   /\ SwapsLogged'[n - 1].description[3] = roll2) =>
                      \A i \in RecordsOf(roll1), j \in RecordsOf(roll2) :
                          /\ allocations'[i].seat_number = SwapsLogged'[n - 1].description[6]
                          /\ allocations'[j].seat_number = SwapsLogged'[n - 1].description[7]
                          /\ allocations'[i].room_no = SwapsLogged'[n - 1].description[4]
                          /\ allocations'[j].room_no = SwapsLogged'[n - 1].description[5]
                          /\ allocations'[i] = [allocations[j] EXCEPT !.roll_no = roll1,
                                 !.allocation_method = allocations[i].allocation_method]
       ]_vars

\* Three students seated over two rooms by a run; students 1 and 3, in
\* different rooms, were swapped and then swapped again.
C21_Witness ==
    /\ last = "swap_seats"
    /\ result.success
    /\ NumStudents = 3
    /\ Len(allocations) = 3
    /\ Len(activity_log) = 3
    /\ Len(SwapsLogged) = 2
    /\ SwapsLogged[1].description[2] = 1
    /\ SwapsLogged[1].description[3] = 3
    /\ SwapsLogged[2].description[2] = 1
    /\ SwapsLogged[1].description[4] # SwapsLogged[1].description[5]
    /\ \E a \in Records : a.roll_no = 1 /\ a.seat_number = SwapsLogged[1].description[6]

\* C22: a swap_seats call succeeds only when both roll numbers had an
\* allocation record; every other call returns failure with a message that
\* names a roll number without a record and leaves seating_allocations and
\* activity_log as they were, whether the records are missing because the
\* run failed, because no run was made or because the run left that student
\* unseated.
C22_SwapRefusedWithoutRecord ==
    [][last' = "swap_seats" =>
           IF result'.success
           THEN /\ RecordsOf(result'.message[2]) # {}
                /\ RecordsOf(result'.message[3]) # {}
           ELSE /\ allocations' = allocations
                /\ activity_log' = activity_log
                /\ students' = students /\ rooms' = rooms
                /\ \A k \in 2..Len(result'.message) :
                       RecordsOf(result'.message[k]) = {}
                /\ result'.message[1] \in
                       {"Neither roll number has a seat allocation",
                        "Roll number has no allocation to swap"}
                /\ Len(result'.message) =
                       IF result'.message[1] = "Neither roll number has a seat allocation"
                       THEN 3 ELSE 2
       ]_vars

\* A run seated students 1 and 2 of three and logged it; a swap that names
\* student 3 was refused.
C22_Witness ==
    /\ last = "swap_seats"
    /\ ~result.success
    /\ result.message = <<"Roll number has no allocation to swap", 3>>
    /\ NumStudents = 3
    /\ Len(allocations) = 2
    /\ RecordsOf(3) = {}
    /\ Len(activity_log) = 1
    /\ SwapsLogged = <<>>

=============================================================================
